---------------------------- MODULE Spec2Model ----------------------------
(* Model of tmm, a terminal front-end for tmux sessions: the App state    *)
(* (src/src/app.rs), the key handler (src/src/handler.rs), the part of    *)
(* render that writes App state (src/src/ui.rs) and the main loop         *)
(* (src/src/main.rs).  Text is a sequence of one-character strings, an    *)
(* Option is a sequence of length 0 (None) or 1 (Some), indices into Vecs *)
(* are 0-based as in the source.                                          *)
EXTENDS Integers, Sequences, FiniteSets, TLC

(**************************************************************************)
(* Bounds                                                                 *)
(**************************************************************************)
\* longest text a prompt for a name is given
MaxBuf == 1
\* most sessions the tmux server holds
MaxStore == 3
\* cap on the selected index when it is stepped over an empty list
MaxSel == 2
\* longest text the search prompt is given
MaxNeedle == 2

\* usize::MAX, with usize scaled down to 16 bits
UsizeMax == 65535

\* a byte that is not valid UTF-8
BadByte == "0xFF"

\* characters the user types into the prompts for a name
NameChars == {"q", "."}
\* characters the user types into the search prompt
SearchChars == {"q", "Q", " ", "2"}
\* characters the user types into a text area
Chars == NameChars \cup SearchChars

\* session names made by other tmux clients
ExtNames == {<<"b">>, <<BadByte>>}

None == <<>>
Some(x) == <<x>>

(**************************************************************************)
(* Text                                                                   *)
(**************************************************************************)
\* byte value of a character, for strcmp
Ord(c) ==
  CASE c = "\n" -> 10 [] c = " " -> 32 [] c = "." -> 46 [] c = "1" -> 49
    [] c = "2" -> 50 [] c = ":" -> 58 [] c = "Q" -> 81 [] c = "_" -> 95 [] c = "b" -> 98
    [] c = "q" -> 113 [] OTHER -> 255

RECURSIVE StrLess(_, _)
StrLess(s, t) ==
  IF t = <<>> THEN FALSE
  ELSE IF s = <<>> THEN TRUE
  ELSE IF Head(s) = Head(t) THEN StrLess(Tail(s), Tail(t))
  ELSE Ord(Head(s)) < Ord(Head(t))

\* str::split(sep): the pieces between the separators, at least one piece
RECURSIVE SplitFrom(_, _, _)
SplitFrom(s, sep, cur) ==
  IF s = <<>> THEN <<cur>>
  ELSE IF Head(s) = sep THEN <<cur>> \o SplitFrom(Tail(s), sep, <<>>)
  ELSE SplitFrom(Tail(s), sep, Append(cur, Head(s)))

Split(s, sep) == SplitFrom(s, sep, <<>>)

\* str::lines(): split at "\n", no final empty line
StrLines(s) ==
  LET parts == Split(s, "\n")
  IN IF parts[Len(parts)] = <<>> THEN SubSeq(parts, 1, Len(parts) - 1) ELSE parts

\* [&str]::join(sep)
RECURSIVE Join(_, _)
Join(parts, sep) ==
  IF parts = <<>> THEN <<>>
  ELSE IF Len(parts) = 1 THEN parts[1]
  ELSE parts[1] \o <<sep>> \o Join(Tail(parts), sep)

RECURSIVE Concat(_)
Concat(ss) == IF ss = <<>> THEN <<>> ELSE Head(ss) \o Concat(Tail(ss))

\* Iterator::position: 0-based index of the first element with P, as Option
RECURSIVE PositionFrom(_, _, _)
PositionFrom(seq, x, i) ==
  IF i > Len(seq) THEN None
  ELSE IF seq[i] = x THEN Some(i - 1)
  ELSE PositionFrom(seq, x, i + 1)

Position(seq, x) == PositionFrom(seq, x, 1)

SessionNames(sess) == [i \in 1..Len(sess) |-> sess[i][1]]
NameSet(sess) == {sess[i][1] : i \in 1..Len(sess)}

(**************************************************************************)
(* The tmux server: a set of session names                                *)
(**************************************************************************)
\* tmux replaces '.' and ':' in a session name by '_'
Normalize(name) ==
  [i \in 1..Len(name) |-> IF name[i] \in {".", ":"} THEN "_" ELSE name[i]]

\* what `tmux ls` prints after "name:"
InfoOf(name) ==
  IF name \in ExtNames THEN <<" ", "2", ":", "1">> ELSE <<" ", "1">>

RECURSIVE SortedNames(_)
SortedNames(S) ==
  IF S = {} THEN <<>>
  ELSE LET m == CHOOSE x \in S : \A y \in S \ {x} : StrLess(x, y)
       IN <<m>> \o SortedNames(S \ {m})

\* stdout of `tmux ls`: one line per session, in name order
TmuxLs(srv) ==
  LET names == SortedNames(srv)
  IN Concat([i \in 1..Len(names) |->
               names[i] \o <<":">> \o InfoOf(names[i]) \o <<"\n">>])

\* from_utf8 succeeds
IsUtf8(bytes) == \A i \in 1..Len(bytes) : bytes[i] # BadByte

TmuxKillOk(srv, name) == name \in srv
TmuxKill(srv, name) == srv \ {name}

TmuxRenameOk(srv, old, new) ==
  /\ old \in srv
  /\ new # <<>>
  /\ Normalize(new) \notin srv
TmuxRename(srv, old, new) ==
  IF TmuxRenameOk(srv, old, new) THEN (srv \ {old}) \cup {Normalize(new)} ELSE srv

TmuxNewOk(srv, name) ==
  /\ name # <<>>
  /\ Normalize(name) \notin srv
  /\ Cardinality(srv) < MaxStore
TmuxNew(srv, name) ==
  IF TmuxNewOk(srv, name) THEN srv \cup {Normalize(name)} ELSE srv

(**************************************************************************)
(* State                                                                  *)
(**************************************************************************)
VARIABLES
  running, on_exit, sessions, selected_session, state,
  rename_session_ta, new_session_ta, search_session_ta,
  search_session_selected, matching_rows,
  pc,               \* position of main: "draw", "event", "exit", "panic"
  panic,            \* the panic message, "" while none
  overflow_checks,  \* the build checks integer overflow (debug profile)
  nested,           \* $TMUX is set
  tmux,             \* the sessions of the tmux server
  calls,            \* tmux commands run by the last event, with success
  refreshed         \* the refreshes run by the last event

appvars == <<running, on_exit, sessions, selected_session, state,
             rename_session_ta, new_session_ta, search_session_ta,
             search_session_selected, matching_rows>>
vars == <<running, on_exit, sessions, selected_session, state,
          rename_session_ta, new_session_ta, search_session_ta,
          search_session_selected, matching_rows,
          pc, panic, overflow_checks, nested, tmux, calls, refreshed>>

\* the App with the server it talks to, as a value the methods transform
Self ==
  [running |-> running, on_exit |-> on_exit, sessions |-> sessions,
   selected_session |-> selected_session, state |-> state,
   rename_session_ta |-> rename_session_ta,
   new_session_ta |-> new_session_ta,
   search_session_ta |-> search_session_ta,
   search_session_selected |-> search_session_selected,
   matching_rows |-> matching_rows,
   panic |-> "", oc |-> overflow_checks, tmux |-> tmux,
   calls |-> <<>>, refreshed |-> <<>>]

\* usize subtraction and addition of 1
SubOne(n) == IF n = 0 THEN UsizeMax ELSE n - 1
AddOne(n) == IF n = UsizeMax THEN 0 ELSE n + 1
Min(a, b) == IF a < b THEN a ELSE b
Max(a, b) == IF a > b THEN a ELSE b

Panic(a, msg) == [a EXCEPT !.panic = msg]


(**************************************************************************)
(* App methods (src/src/app.rs)                                           *)
(**************************************************************************)
quit(a) == [a EXCEPT !.running = FALSE]

attach(a, name, detach_others) ==
  [a EXCEPT !.running = FALSE,
            !.on_exit = <<"AttachSession", name, detach_others>>]

\* one line of `tmux ls` as (name, description)
ParseLine(line) ==
  LET parts == Split(line, ":")
  IN <<parts[1], Join(Tail(parts), " ")>>

ParseSessions(stdout) ==
  LET lines == StrLines(stdout)
  IN [i \in 1..Len(lines) |-> ParseLine(lines[i])]

\* the name of the highlighted session, if the index is in the list
SelectedName(sess, sel) ==
  IF sel < Len(sess) THEN Some(sess[sel + 1][1]) ELSE None

\* Reselect without the search for the name: the index stays
Reselect_KeepIndex(new, selected_name, sel) == sel

\* Reselect that goes to the top when the name is gone
Reselect_TopWhenGone(new, selected_name, sel) ==
  IF selected_name = None THEN sel
  ELSE LET idx == Position(SessionNames(new), selected_name[1])
       IN IF idx # None THEN idx[1] ELSE 0

\* the index the selected name has in the new list, else the old index
Reselect(new, selected_name, sel) ==
  IF selected_name = None THEN sel
  ELSE LET idx == Position(SessionNames(new), selected_name[1])
       IN IF idx # None THEN idx[1] ELSE sel

\* ClampSelected without the min
ClampSelected_Unclamped(sel, len) == Max(sel, 0)

\* selected_session.max(0).min(sessions.len()-1), len()-1 wrapping
ClampSelected(sel, len) == Min(Max(sel, 0), SubOne(len))

\* refresh once stdout is read and, if it is UTF-8, parsed into new
Refresh(a, stdout, new) ==
  LET b == [a EXCEPT !.calls = Append(@, <<"ls", IsUtf8(stdout)>>)]
      before == <<a.sessions, a.selected_session>>
      sel == ClampSelected(
               Reselect(new, SelectedName(a.sessions, a.selected_session),
                        a.selected_session),
               Len(new))
  IN IF ~IsUtf8(stdout)
     THEN [b EXCEPT !.refreshed = Append(@,
             [before |-> before, stdout |-> stdout, after |-> before, done |-> TRUE])]
     ELSE IF Len(new) = 0 /\ a.oc
     THEN [b EXCEPT !.panic = "attempt to subtract with overflow",
                    !.refreshed = Append(@,
             [before |-> before, stdout |-> stdout, after |-> before, done |-> FALSE])]
     ELSE [b EXCEPT !.sessions = new, !.selected_session = sel,
                    !.refreshed = Append(@,
             [before |-> before, stdout |-> stdout, after |-> <<new, sel>>,
              done |-> TRUE])]

\* the outcome of refresh, as a set of one; a method gives the set of its
\* outcomes, and the methods after it go on from each
refresh(a) ==
  UNION {{Refresh(a, stdout, new) :
            new \in {IF IsUtf8(stdout) THEN ParseSessions(stdout) ELSE <<>>}} :
         stdout \in {TmuxLs(a.tmux)}}

confirm_delete(a) == [a EXCEPT !.state = "Deleting"]

confirm_rename(a) ==
  [a EXCEPT !.rename_session_ta = Some(<<>>), !.state = "Renaming"]

search(a) ==
  [a EXCEPT !.search_session_ta = Some(<<>>), !.state = "SessionsSearch"]

dismiss_all(a) ==
  [a EXCEPT !.rename_session_ta = None, !.search_session_ta = None,
            !.state = "Sessions"]

is_nested == nested

\* the rest of a method after its refresh
AfterRefresh(c) == IF c.panic # "" THEN c ELSE dismiss_all(c)

rename(a, text) ==
  IF a.selected_session >= Len(a.sessions)
  THEN {Panic(a, "Could not identify session to delete")}
  ELSE LET name == a.sessions[a.selected_session + 1][1]
           ok == TmuxRenameOk(a.tmux, name, text)
           b == [a EXCEPT !.tmux = TmuxRename(@, name, text),
                          !.calls = Append(@, <<"rename-session", name, text, ok>>)]
       IN IF ~ok
          THEN {Panic(b, "This is the failure message")}
          ELSE {AfterRefresh(c) : c \in refresh(b)}

delete(a) ==
  IF a.selected_session >= Len(a.sessions)
  THEN {Panic(a, "Could not identify session to delete")}
  ELSE LET name == a.sessions[a.selected_session + 1][1]
           ok == TmuxKillOk(a.tmux, name)
           b == [a EXCEPT !.tmux = TmuxKill(@, name),
                          !.calls = Append(@, <<"kill-session", name, ok>>)]
       IN {AfterRefresh(c) : c \in refresh(b)}

confirm_new_session(a) ==
  [a EXCEPT !.new_session_ta = Some(<<>>), !.state = "NewSession"]

\* what new_session_names.difference(&old_session_names) iterates over
NewNames(old_sessions, new_sessions) ==
  NameSet(new_sessions) \ NameSet(old_sessions)

\* what difference().next() can give: any one of the names, as Option
FirstOfDifference(diff) ==
  IF diff = {} THEN {None} ELSE {Some(n) : n \in diff}

\* SelectNew that leaves the selection of the refresh
SelectNew_Skip(a, first) == a

\* the selection of the new session, first being what next() gave
SelectNew(a, first) ==
  IF first = None THEN a
  ELSE LET idx == Position(SessionNames(a.sessions), first[1])
       IN IF idx # None THEN [a EXCEPT !.selected_session = idx[1]] ELSE a

\* new_session after its refresh, with the names the list had before
AfterCreate(c, old_sessions) ==
  IF c.panic # "" THEN {c}
  ELSE {dismiss_all(SelectNew(c, first)) :
          first \in FirstOfDifference(NewNames(old_sessions, c.sessions))}

\* ExitNewSession that only stops the loop
ExitNewSession_PlainQuit(a) == [a EXCEPT !.running = FALSE]

\* new_session without a name: exit and attach a new session
ExitNewSession(a) ==
  [a EXCEPT !.running = FALSE, !.on_exit = <<"NewSession">>]

\* the outcomes of new_session(name), one for each order of the HashSet
new_session(a, name) ==
  IF name = None
  THEN {ExitNewSession(a)}
  ELSE LET ok == TmuxNewOk(a.tmux, name[1])
           b == [a EXCEPT !.tmux = TmuxNew(@, name[1]),
                          !.calls = Append(@, <<"new-session", name[1], ok>>)]
       IN IF ~ok THEN {Panic(b, "This is the failure message")}
          ELSE UNION {AfterCreate(c, a.sessions) : c \in refresh(b)}

(**************************************************************************)
(* render (src/src/ui.rs): the part that reads or writes App state        *)
(**************************************************************************)
max_session_name_width(sess) ==
  LET lens == {Len(sess[i][1]) : i \in 1..Len(sess)}
  IN IF lens = {} THEN 0 ELSE CHOOSE m \in lens : \A l \in lens : l <= m

Spaces(n) == [i \in 1..n |-> " "]

\* format!("{:>2$}: {}", name, desc, width)
ItemString(name, desc, width) ==
  Spaces(Max(width - Len(name), 0)) \o name \o <<":", " ">> \o desc

ItemStrings(sess) ==
  [i \in 1..Len(sess) |->
     ItemString(sess[i][1], sess[i][2], max_session_name_width(sess))]

IsAt(row, needle, j) ==
  /\ j + Len(needle) <= Len(row)
  /\ SubSeq(row, j + 1, j + Len(needle)) = needle

\* str::match_indices for a non-empty needle: the 0-based starts of the
\* non-overlapping occurrences, left to right from j
RECURSIVE MatchIndicesFrom(_, _, _)
MatchIndicesFrom(row, needle, j) ==
  IF j + Len(needle) > Len(row) THEN <<>>
  ELSE IF IsAt(row, needle, j)
       THEN <<j>> \o MatchIndicesFrom(row, needle, j + Len(needle))
       ELSE MatchIndicesFrom(row, needle, j + 1)

\* RowMatched without the test for an empty needle: "" is found in every row
RowMatched_EmptyMatches(row, needle) ==
  IF needle # <<>> THEN MatchIndicesFrom(row, needle, 0) # <<>> ELSE TRUE

\* the flag `matched` of a row
RowMatched(row, needle) ==
  IF needle # <<>> THEN MatchIndicesFrom(row, needle, 0) # <<>> ELSE FALSE

\* matching_rows after the rows are mapped: the 0-based matching rows
RECURSIVE MatchingRowsFrom(_, _, _)
MatchingRowsFrom(rows, needle, i) ==
  IF i > Len(rows) THEN <<>>
  ELSE (IF RowMatched(rows[i], needle) THEN <<i - 1>> ELSE <<>>)
         \o MatchingRowsFrom(rows, needle, i + 1)

MatchingRows(sess, needle) == MatchingRowsFrom(ItemStrings(sess), needle, 1)

Contains(seq, x) == \E i \in 1..Len(seq) : seq[i] = x

\* SelectedMatch that goes to the first match in every frame
SelectedMatch_First(selected, rows) ==
  IF rows # <<>> THEN Some(rows[1]) ELSE None

\* search_session_selected after the rows are matched
SelectedMatch(selected, rows) ==
  IF selected # None
  THEN IF rows = <<>> THEN None
       ELSE IF ~Contains(rows, selected[1]) THEN Some(rows[1])
       ELSE selected
  ELSE IF rows # <<>> THEN Some(rows[1])
  ELSE None

RenderList(a) ==
  IF a.state = "SessionsSearch"
  THEN IF a.search_session_ta = None
       THEN {Panic(a, "Could not get search term")}
       ELSE {[a EXCEPT !.matching_rows = rows,
                       !.search_session_selected = SelectedMatch(@, rows)] :
               rows \in {MatchingRows(a.sessions, a.search_session_ta[1])}}
  ELSE {a}

RenderPopups(a) ==
  IF a.state = "Deleting" /\ a.selected_session >= Len(a.sessions)
  THEN Panic(a, "index out of bounds")
  ELSE a

render(a) == {IF b.panic # "" THEN b ELSE RenderPopups(b) : b \in RenderList(a)}

(**************************************************************************)
(* handle_key_events (src/src/handler.rs)                                 *)
(**************************************************************************)
Key(c) == [code |-> c, ctrl |-> FALSE]
Ctrl(c) == [code |-> c, ctrl |-> TRUE]

Codes == Chars \cup {"c", "k", "j", "p", "n", "a", "g", "G", "x", "N", "r",
                     "/", "y", "Enter", "Esc", "Up", "Down", "Backspace"}
Keys == {Key(c) : c \in Codes} \cup {Ctrl("c"), Ctrl("p"), Ctrl("n")}

\* TextArea::input: a character is put at the end, Backspace takes the
\* last one away; the other keys leave the text
Input(ta, key) ==
  IF ~key.ctrl /\ key.code \in Chars THEN Append(ta, key.code)
  ELSE IF key = Key("Backspace") /\ ta # <<>> THEN SubSeq(ta, 1, Len(ta) - 1)
  ELSE ta

IsQuitKey(key) == key = Key("q") \/ key = Ctrl("c")

GlobalQuit(a, key) ==
  a.state \notin {"Renaming", "SessionsSearch"} /\ IsQuitKey(key)

MoveUp(a) ==
  [a EXCEPT !.selected_session = IF @ = 0 THEN 0 ELSE @ - 1]

MoveDown(a) ==
  IF a.oc /\ (a.selected_session = UsizeMax \/ Len(a.sessions) = 0)
  THEN Panic(a, "attempt to add or subtract with overflow")
  ELSE [a EXCEPT !.selected_session = Min(AddOne(@), SubOne(Len(a.sessions)))]

\* AttachSelected that takes the first session of the list
AttachSelected_First(a) ==
  IF a.sessions = <<>>
  THEN Panic(a, "index out of bounds")
  ELSE attach(a, a.sessions[1][1], TRUE)

AttachSelected(a) ==
  IF a.selected_session >= Len(a.sessions)
  THEN Panic(a, "index out of bounds")
  ELSE attach(a, a.sessions[a.selected_session + 1][1], TRUE)

JumpTop(a) == [a EXCEPT !.selected_session = 0]

JumpEnd(a) ==
  IF a.oc /\ Len(a.sessions) = 0
  THEN Panic(a, "attempt to subtract with overflow")
  ELSE [a EXCEPT !.selected_session = SubOne(Len(a.sessions))]

\* the request to create a session: the prompt, or the warning when nested
RequestNew(a) ==
  IF is_nested THEN [a EXCEPT !.state = "WarnNested"]
  ELSE confirm_new_session(a)

SessionsKey(a, key) ==
  CASE key \in {Key("k"), Key("Up"), Ctrl("p")} -> MoveUp(a)
    [] key \in {Key("j"), Key("Down"), Ctrl("n")} -> MoveDown(a)
    [] key \in {Key("Enter"), Key("a")} -> AttachSelected(a)
    [] key = Key("g") -> JumpTop(a)
    [] key = Key("G") -> JumpEnd(a)
    [] key = Key("x") -> confirm_delete(a)
    [] key = Key("N") -> RequestNew(a)
    [] key = Key("r") -> confirm_rename(a)
    [] key = Key("/") -> search(a)
    [] OTHER -> a

\* SearchCommit that does not take the pointed-at row
SearchCommit_Keep(a) == dismiss_all(a)

SearchCommit(a) ==
  dismiss_all(IF a.search_session_selected # None
              THEN [a EXCEPT !.selected_session = a.search_session_selected[1]]
              ELSE a)

\* SearchCancel that takes the pointed-at row as the commit does
SearchCancel_Adopt(a) == SearchCommit(a)

SearchCancel(a) == dismiss_all([a EXCEPT !.search_session_selected = None])

SearchPrev(a) ==
  IF a.search_session_selected = None THEN a
  ELSE LET cur == Position(a.matching_rows, a.search_session_selected[1])
       IN IF cur = None THEN a
          ELSE LET new_idx == IF cur[1] = 0 THEN 0 ELSE cur[1] - 1
               IN [a EXCEPT !.search_session_selected =
                              Some(a.matching_rows[new_idx + 1])]

\* SearchNext that goes from the last match round to the first
SearchNext_Wrap(a) ==
  IF a.search_session_selected = None THEN a
  ELSE LET cur == Position(a.matching_rows, a.search_session_selected[1])
       IN IF cur = None THEN a
          ELSE LET new_idx == (cur[1] + 1) % Len(a.matching_rows)
               IN [a EXCEPT !.search_session_selected =
                              Some(a.matching_rows[new_idx + 1])]

SearchNext(a) ==
  IF a.search_session_selected = None THEN a
  ELSE LET cur == Position(a.matching_rows, a.search_session_selected[1])
       IN IF cur = None THEN a
          ELSE LET new_idx == Min(cur[1] + 1, Len(a.matching_rows) - 1)
               IN [a EXCEPT !.search_session_selected =
                              Some(a.matching_rows[new_idx + 1])]

SearchInput(a, key) ==
  IF a.search_session_ta # None
  THEN [a EXCEPT !.search_session_ta = Some(Input(@[1], key))]
  ELSE a

SearchKey(a, key) ==
  CASE key = Key("Enter") -> SearchCommit(a)
    [] key = Key("Esc") -> SearchCancel(a)
    [] key = Ctrl("p") -> SearchPrev(a)
    [] key = Ctrl("n") -> SearchNext(a)
    [] OTHER -> SearchInput(a, key)

DeletingKey(a, key) ==
  CASE key = Key("y") -> delete(a)
    [] key \in {Key("n"), Key("Esc")} -> {dismiss_all(a)}
    [] OTHER -> {a}

RenamingKey(a, key) ==
  CASE key = Key("Enter") ->
         IF a.new_session_ta # None THEN rename(a, a.new_session_ta[1]) ELSE {a}
    [] key = Key("Esc") -> {dismiss_all(a)}
    [] OTHER ->
         {IF a.new_session_ta # None
          THEN [a EXCEPT !.new_session_ta = Some(Input(@[1], key))]
          ELSE a}

\* the prompt for the name of a new session; gives the set of results
NewSessionKey(a, key) ==
  CASE key = Key("Enter") ->
         IF a.new_session_ta = None THEN {a}
         ELSE IF a.new_session_ta[1] = <<>> THEN new_session(a, None)
         ELSE new_session(a, Some(a.new_session_ta[1]))
    [] key = Key("Esc") -> {dismiss_all(a)}
    [] OTHER ->
         {IF a.new_session_ta # None
          THEN [a EXCEPT !.new_session_ta = Some(Input(@[1], key))]
          ELSE a}

\* WarnNestedKey that leaves the warning up
WarnNestedKey_Stay(a, key) == a

\* any key dismisses the warning
WarnNestedKey(a, key) == dismiss_all(a)

\* the outcomes of handle_key_events(key, app)
handle_key_events(a, key) ==
  IF GlobalQuit(a, key) THEN {quit(a)}
  ELSE CASE a.state = "Sessions" -> {SessionsKey(a, key)}
         [] a.state = "SessionsSearch" -> {SearchKey(a, key)}
         [] a.state = "Deleting" -> DeletingKey(a, key)
         [] a.state = "Renaming" -> RenamingKey(a, key)
         [] a.state = "NewSession" -> NewSessionKey(a, key)
         [] a.state = "WarnNested" -> {WarnNestedKey(a, key)}

(**************************************************************************)
(* main (src/src/main.rs) and the other tmux clients                      *)
(**************************************************************************)
\* the texts a text area can hold
Texts == UNION {[1..k -> NameChars] : k \in 0..MaxBuf}

\* the names the server can hold
AllNames == ExtNames \cup {Normalize(t) : t \in Texts \ {<<>>}}

\* the names the server can hold when tmm starts
InitNames == ExtNames \cup {<<"q">>}

\* App::default() before its refresh, on a server srv, in a build oc
Default(srv, oc) ==
  [running |-> TRUE, on_exit |-> <<"None">>, sessions |-> <<>>,
   selected_session |-> 0, state |-> "Sessions",
   rename_session_ta |-> None, new_session_ta |-> None,
   search_session_ta |-> None, search_session_selected |-> None,
   matching_rows |-> <<>>,
   panic |-> "", oc |-> oc, tmux |-> srv, calls |-> <<>>, refreshed |-> <<>>]

\* the state is that of a, main being at position at
IsState(a, at) ==
  /\ running = a.running
  /\ on_exit = a.on_exit
  /\ sessions = a.sessions
  /\ selected_session = a.selected_session
  /\ state = a.state
  /\ rename_session_ta = a.rename_session_ta
  /\ new_session_ta = a.new_session_ta
  /\ search_session_ta = a.search_session_ta
  /\ search_session_selected = a.search_session_selected
  /\ matching_rows = a.matching_rows
  /\ tmux = a.tmux
  /\ calls = a.calls
  /\ refreshed = a.refreshed
  /\ panic = a.panic
  /\ pc = at

Init ==
  /\ overflow_checks \in BOOLEAN
  /\ nested \in BOOLEAN
  /\ \E srv \in SUBSET InitNames :
       /\ Cardinality(srv) <= MaxStore
       /\ \E d \in {Default(srv, overflow_checks)} :
            \E a \in refresh(d) :
              IF a.panic # ""
              THEN IsState([d EXCEPT !.panic = a.panic, !.calls = a.calls,
                                     !.refreshed = a.refreshed], "panic")
              ELSE IsState(a, "draw")

\* the next state is that of a; a panic ends the process where it stood
Becomes(a, at) ==
  /\ tmux' = a.tmux
  /\ calls' = a.calls
  /\ refreshed' = a.refreshed
  /\ panic' = a.panic
  /\ UNCHANGED <<overflow_checks, nested>>
  /\ IF a.panic # ""
     THEN pc' = "panic" /\ UNCHANGED appvars
     ELSE /\ pc' = (IF a.running THEN at ELSE "exit")
          /\ running' = a.running
          /\ on_exit' = a.on_exit
          /\ sessions' = a.sessions
          /\ selected_session' = a.selected_session
          /\ state' = a.state
          /\ rename_session_ta' = a.rename_session_ta
          /\ new_session_ta' = a.new_session_ta
          /\ search_session_ta' = a.search_session_ta
          /\ search_session_selected' = a.search_session_selected
          /\ matching_rows' = a.matching_rows

\* tui.draw(&mut app)
Draw ==
  /\ pc = "draw"
  /\ \E s \in {Self} : \E a \in render(s) : Becomes(a, "event")

\* the key types one more character than the text area is given here
Overfull(ta, key, max) ==
  ~key.ctrl /\ key.code \in Chars /\ ta # None /\ Len(ta[1]) >= max

\* keys sent while a name is entered
TextKeys == {Key(c) : c \in NameChars \cup {"Enter", "Esc", "Backspace", "Up", "Down"}}
              \cup {Ctrl("c"), Ctrl("p"), Ctrl("n")}

\* keys sent while a search text is entered
SearchKeys == {Key(c) : c \in SearchChars \cup {"Enter", "Esc", "Backspace", "Up", "Down"}}
                \cup {Ctrl("c"), Ctrl("p"), Ctrl("n")}

\* the step would count the index up from MaxSel over an empty list, or
\* down from usize::MAX, one by one
Unbounded(key) ==
  \/ /\ key \in {Key("j"), Key("Down"), Ctrl("n")}
     /\ sessions = <<>>
     /\ selected_session >= MaxSel
     /\ selected_session # UsizeMax
  \/ /\ key \in {Key("k"), Key("Up"), Ctrl("p")}
     /\ selected_session > MaxSel

\* KeyEvent that takes the next event without a frame in between
KeyEvent_NoDraw(key) ==
  /\ pc = "event"
  /\ \E s \in {Self} : \E a \in handle_key_events(s, key) : Becomes(a, "event")

\* Event::Key(key_event): the key is handled, then the loop draws
KeyEvent(key) ==
  /\ pc = "event"
  /\ \E s \in {Self} : \E a \in handle_key_events(s, key) : Becomes(a, "draw")

QuitKey ==
  \E key \in Keys : GlobalQuit(Self, key) /\ KeyEvent(key)

SessionsKeyEvent ==
  \E key \in Keys :
    /\ state = "Sessions" /\ ~GlobalQuit(Self, key) /\ ~Unbounded(key)
    /\ KeyEvent(key)

SearchKeyEvent ==
  \E key \in SearchKeys :
    /\ state = "SessionsSearch" /\ ~Overfull(search_session_ta, key, MaxNeedle)
    /\ KeyEvent(key)

DeletingKeyEvent ==
  \E key \in Keys :
    /\ state = "Deleting" /\ ~GlobalQuit(Self, key)
    /\ KeyEvent(key)

RenamingKeyEvent ==
  \E key \in TextKeys :
    /\ state = "Renaming" /\ ~Overfull(new_session_ta, key, MaxBuf)
    /\ KeyEvent(key)

NewSessionKeyEvent ==
  \E key \in TextKeys :
    /\ state = "NewSession" /\ ~GlobalQuit(Self, key)
    /\ ~Overfull(new_session_ta, key, MaxBuf)
    /\ KeyEvent(key)

WarnNestedKeyEvent ==
  \E key \in Keys :
    /\ state = "WarnNested" /\ ~GlobalQuit(Self, key)
    /\ KeyEvent(key)

\* Event::Mouse, Event::Resize
OtherEvent == pc = "event" /\ pc' = "draw" /\ UNCHANGED <<appvars, panic,
                overflow_checks, nested, tmux, calls, refreshed>>

\* another tmux client makes a session
ClientCreates ==
  /\ pc = "event"
  /\ Cardinality(tmux) < MaxStore
  /\ \E n \in ExtNames \ tmux : tmux' = tmux \cup {n}
  /\ UNCHANGED <<appvars, pc, panic, overflow_checks, nested, calls, refreshed>>

\* another tmux client kills a session
ClientKills ==
  /\ pc = "event"
  /\ \E n \in tmux \cap ExtNames : tmux' = tmux \ {n}
  /\ UNCHANGED <<appvars, pc, panic, overflow_checks, nested, calls, refreshed>>

Next ==
  \/ Draw
  \/ QuitKey
  \/ SessionsKeyEvent
  \/ SearchKeyEvent
  \/ DeletingKeyEvent
  \/ RenamingKeyEvent
  \/ NewSessionKeyEvent
  \/ WarnNestedKeyEvent
  \/ OtherEvent
  \/ ClientCreates
  \/ ClientKills

Spec == Init /\ [][Next]_vars

TypeOK ==
  /\ running \in BOOLEAN
  /\ state \in {"Sessions", "SessionsSearch", "Deleting", "Renaming",
                "WarnNested", "NewSession"}
  /\ pc \in {"draw", "event", "exit", "panic"}
  /\ selected_session \in 0..UsizeMax
  /\ Len(sessions) <= MaxStore

(**************************************************************************)
(* Properties                                                             *)
(**************************************************************************)
\* the refresh the last event (or the construction) ran
Refreshed == refreshed # <<>>
LastRefresh == refreshed[Len(refreshed)]

\* the refresh took the snapshot: stdout was UTF-8 and no panic cut it off
Applied(r) == IsUtf8(r.stdout) /\ r.done

\* the session selected before the refresh r, as Option of its name
SelectedBefore(r) ==
  IF r.before[2] < Len(r.before[1])
  THEN Some(r.before[1][r.before[2] + 1][1]) ELSE None

\* the last event ran the tmux command cmd first
Ran(cmd) == calls # <<>> /\ calls[1][1] = cmd

IsMutation(call) == call[1] \in {"new-session", "rename-session", "kill-session"}
Succeeded(call) == call[Len(call)]

\* C1: whenever the session list is not empty, the selected index is an
\* index of the list.
C1_SelectedInRange ==
  sessions # <<>> => (0 <= selected_session /\ selected_session < Len(sessions))

\* a named create has just selected the new session, the last of three
C1_Witness ==
  /\ Ran("new-session") /\ Refreshed /\ pc = "draw"
  /\ Len(sessions) = 3
  /\ selected_session = 2
  /\ LastRefresh.after[2] # 2

\* C2: when the session selected before a refresh is in the snapshot the
\* refresh takes, the selected index after the refresh is the index of
\* that session in the snapshot.
C2_SelectionPreserved ==
  Refreshed =>
    LET r == LastRefresh
        X == SelectedBefore(r)
    IN (Applied(r) /\ X # None /\ X[1] \in NameSet(r.after[1])) =>
         /\ r.after[2] < Len(r.after[1])
         /\ \A i \in 1..Len(r.after[1]) :
              r.after[1][i][1] = X[1] <=> r.after[2] = i - 1

\* the selected session was found at another index than it had
C2_Witness ==
  /\ Refreshed
  /\ LET r == LastRefresh
         X == SelectedBefore(r)
     IN /\ Applied(r) /\ X # None
        /\ X[1] \in NameSet(r.after[1])
        /\ r.after[2] # r.before[2]
        /\ r.after[2] > 0

\* C3: when the session selected at index i before a refresh is not in
\* the non-empty snapshot of length n the refresh takes, the selected
\* index after the refresh is min(i, n-1).
C3_SelectionAfterRemoval ==
  Refreshed =>
    LET r == LastRefresh
        X == SelectedBefore(r)
        n == Len(r.after[1])
    IN (Applied(r) /\ X # None /\ n > 0 /\ X[1] \notin NameSet(r.after[1])) =>
         r.after[2] = (IF r.before[2] < n - 1 THEN r.before[2] ELSE n - 1)

\* the selected session at index 1 went away and two or more are left
C3_Witness ==
  /\ Refreshed
  /\ LET r == LastRefresh
         X == SelectedBefore(r)
     IN /\ Applied(r) /\ X # None
        /\ X[1] \notin NameSet(r.after[1])
        /\ r.before[2] = 1
        /\ Len(r.after[1]) > 1
        /\ r.after[2] = 1

\* the text of line before and after its first colon
BeforeColon(line) ==
  LET k == CHOOSE i \in 1..(Len(line) + 1) :
             /\ i = Len(line) + 1 \/ line[i] = ":"
             /\ \A j \in 1..(i - 1) : line[j] # ":"
  IN SubSeq(line, 1, k - 1)
AfterColon(line) == SubSeq(line, Len(BeforeColon(line)) + 2, Len(line))

\* C4: a refresh that takes the snapshot makes the session list the
\* lines of the snapshot in their order, each as (text before the first
\* colon, rest of the line as it is).
C4_SnapshotVerbatim ==
  Refreshed =>
    LET r == LastRefresh
        lines == StrLines(r.stdout)
    IN Applied(r) =>
         /\ Len(r.after[1]) = Len(lines)
         /\ \A i \in 1..Len(lines) :
              r.after[1][i] = <<BeforeColon(lines[i]), AfterColon(lines[i])>>

\* the names a named create found new
Discovered == NameSet(LastRefresh.after[1]) \ NameSet(LastRefresh.before[1])

\* a named create succeeded and its refresh ran to the end
Created == Ran("new-session") /\ Succeeded(calls[1]) /\ Refreshed /\ pc # "panic"

\* C5: after a named create that finds exactly one new name, the session
\* of that name is the selected one.
C5_SingleNewSelected ==
  (Created /\ Cardinality(Discovered) = 1) =>
     /\ selected_session < Len(sessions)
     /\ sessions[selected_session + 1][1] \in Discovered

\* the new session has another name than was asked for, and the session
\* selected before is still there, where the refresh had kept the selection
C5_Witness ==
  /\ Created /\ Cardinality(Discovered) = 1
  /\ calls[1][2] \notin Discovered
  /\ SelectedBefore(LastRefresh) # None
  /\ SelectedBefore(LastRefresh)[1] \in NameSet(sessions)
  /\ LastRefresh.after[2] # selected_session
  /\ sessions[LastRefresh.after[2] + 1][1] = SelectedBefore(LastRefresh)[1]

\* C6: after a named create that finds no new name or more than one, the
\* selected index is the one the refresh left.
C6_AmbiguousKeepsSelection ==
  (Created /\ Cardinality(Discovered) # 1) =>
     selected_session = LastRefresh.after[2]

\* the number of calls of cmd the last event made
RECURSIVE CountCalls(_, _)
CountCalls(cs, cmd) ==
  IF cs = <<>> THEN 0
  ELSE (IF Head(cs)[1] = cmd THEN 1 ELSE 0) + CountCalls(Tail(cs), cmd)

\* C7: a confirmed delete with session X selected at index i of a
\* non-empty list kills X once, refreshes and ends in Sessions; if the
\* snapshot is the list without X, X is gone and the index is min(i, n-1).
C7_DeleteFlow ==
  Ran("kill-session") =>
    /\ CountCalls(calls, "kill-session") = 1
    /\ Refreshed
    /\ calls[1][2] = SelectedBefore(LastRefresh)[1]
    /\ CountCalls(calls, "ls") = 1
    /\ pc = "draw" /\ state = "Sessions"
    /\ LET r == LastRefresh
           X == calls[1][2]
           n == Len(sessions)
       IN SessionNames(r.after[1]) =
            SelectSeq(SessionNames(r.before[1]), LAMBDA nm : nm # X) =>
              /\ X \notin NameSet(sessions)
              /\ selected_session = Min(r.before[2], Max(n - 1, 0))

\* C8: a create, rename or delete that tmux reports as failed ends the
\* process with a panic, and nothing is run after it.
C8_FailedMutationFatal ==
  \A i \in 1..Len(calls) :
    (IsMutation(calls[i]) /\ ~Succeeded(calls[i])) =>
       pc = "panic" /\ i = Len(calls)

\* C9: a refresh whose `tmux ls` output is not UTF-8 or is empty leaves
\* the session list and the selected index as they were.
C9_EmptyResultNoChange ==
  Refreshed =>
    LET r == LastRefresh
    IN (~IsUtf8(r.stdout) \/ r.stdout = <<>>) =>
         /\ r.done
         /\ r.after = r.before
         /\ pc # "panic" => <<sessions, selected_session>> = r.before

\* C10: with an empty session list nothing panics, no tmux command that
\* needs a session is run and no attach is asked for; a refresh that
\* reads an empty snapshot ends without a panic.
C10_EmptyListNoPanic ==
  /\ (sessions = <<>> \/ (Refreshed /\ LastRefresh.stdout = <<>>)) => panic = ""
  /\ (Refreshed /\ LastRefresh.before[1] = <<>>) =>
        \A i \in 1..Len(calls) : calls[i][1] \notin {"rename-session", "kill-session"}
  /\ sessions = <<>> => on_exit[1] # "AttachSession"

\* a text-entry buffer is allocated
BufferAllocated ==
  rename_session_ta # None \/ new_session_ta # None \/ search_session_ta # None

TextEntryStates == {"Renaming", "NewSession", "SessionsSearch"}

\* C11: in every state a text-entry buffer (rename, new-session or search)
\* is allocated if and only if the state is Renaming, NewSession or
\* SessionsSearch; so after every way out of those states none is left.
C11_BufferIffTextEntry ==
  BufferAllocated <=> state \in TextEntryStates

\* the buffer the prompt of the state shows: of state st, with the three
\* text areas r (rename), n (new session) and s (search)
ActiveTa(st, r, n, s) ==
  CASE st = "Renaming" -> r
    [] st = "NewSession" -> n
    [] st = "SessionsSearch" -> s
    [] OTHER -> None

\* what C12 says of the step a quit key makes
QuitKeyStep(key) ==
  IF state \notin TextEntryStates
  THEN pc' = "exit" /\ ~running' /\ on_exit' = <<"None">>
  ELSE /\ pc' = "draw" /\ running' /\ on_exit' = <<"None">>
       /\ state' = state
       /\ ActiveTa(state, rename_session_ta, new_session_ta,
                   search_session_ta) # None
       /\ ActiveTa(state, rename_session_ta', new_session_ta',
                   search_session_ta')
            = Some(Input(ActiveTa(state, rename_session_ta, new_session_ta,
                                  search_session_ta)[1], key))

\* C12: 'q' and Ctrl-C end the loop, with on_exit None, exactly when the
\* state is Sessions, Deleting or WarnNested; in Renaming, NewSession and
\* SessionsSearch the loop goes on and the key is put into the text area
\* of the prompt.
C12_QuitKeys ==
  [][\A key \in {Key("q"), Ctrl("c")} : KeyEvent(key) => QuitKeyStep(key)]_vars

\* C13: in Renaming with session X selected, a typed key goes into the
\* buffer confirm_rename allocated, and Enter runs rename-session only
\* with (X, text of that buffer): with a non-empty text exactly once, and
\* when tmux reports success the list is refreshed once and the state is
\* Sessions with the rename buffer released.
C13_RenameFlow ==
  [][(state = "Renaming" /\ rename_session_ta # None
        /\ selected_session < Len(sessions)) =>
       /\ \A key \in TextKeys \ {Key("Enter"), Key("Esc")} :
            KeyEvent(key) =>
              /\ state' = "Renaming" /\ calls' = <<>>
              /\ rename_session_ta' = Some(Input(rename_session_ta[1], key))
       /\ KeyEvent(Key("Enter")) =>
            LET t == rename_session_ta[1]
                X == sessions[selected_session + 1][1]
            IN /\ \A i \in 1..Len(calls') :
                    calls'[i][1] = "rename-session" =>
                      calls'[i][2] = X /\ calls'[i][3] = t
               /\ t # <<>> =>
                    /\ CountCalls(calls', "rename-session") = 1
                    /\ Succeeded(calls'[1]) =>
                         /\ CountCalls(calls', "ls") = 1
                         /\ pc' = "draw" /\ state' = "Sessions"
                         /\ rename_session_ta' = None]_vars

\* C14: 'N' in Sessions, not nested, opens the prompt NewSession with an
\* empty buffer and runs no tmux command; Enter there with a non-empty
\* text t runs new-session once, with t, and when tmux reports success the
\* list is refreshed once against the names it had before, a single new
\* name is selected, and the state is Sessions with the buffer released.
C14_CreateFlow ==
  [][/\ (state = "Sessions" /\ ~nested /\ KeyEvent(Key("N"))) =>
          /\ pc' = "draw" /\ state' = "NewSession"
          /\ new_session_ta' = Some(<<>>)
          /\ calls' = <<>> /\ tmux' = tmux
     /\ (state = "NewSession" /\ new_session_ta # None
           /\ new_session_ta[1] # <<>> /\ KeyEvent(Key("Enter"))) =>
          /\ CountCalls(calls', "new-session") = 1
          /\ calls'[1][1] = "new-session" /\ calls'[1][2] = new_session_ta[1]
          /\ Succeeded(calls'[1]) =>
               /\ CountCalls(calls', "ls") = 1
               /\ Len(refreshed') = 1
               /\ refreshed'[1].before[1] = sessions
               /\ LET found == NameSet(sessions') \ NameSet(sessions)
                  IN Cardinality(found) = 1 =>
                       sessions'[selected_session' + 1][1] \in found
               /\ pc' = "draw" /\ state' = "Sessions"
               /\ new_session_ta' = None]_vars

\* C15: Enter in NewSession with an empty text ends the loop with on_exit
\* NewSession, runs no tmux command and leaves the server, the session
\* list and the selected index as they were.
C15_EmptyCommitExits ==
  [][(state = "NewSession" /\ new_session_ta = Some(<<>>)
        /\ KeyEvent(Key("Enter"))) =>
       /\ pc' = "exit" /\ ~running'
       /\ on_exit' = <<"NewSession">>
       /\ calls' = <<>> /\ tmux' = tmux
       /\ sessions' = sessions /\ selected_session' = selected_session]_vars

\* the loop has ended on the empty commit, with sessions in the list and
\* the second one selected
C15_Witness ==
  /\ pc = "exit" /\ ~running
  /\ on_exit = <<"NewSession">>
  /\ state = "NewSession" /\ new_session_ta = Some(<<>>)
  /\ Len(sessions) > 1 /\ selected_session = 1

\* C16: Enter or 'a' in Sessions on a list that is not empty ends the
\* loop with on_exit AttachSession(name at the selected index, true);
\* while the loop runs on_exit is None, and a quit key that quits leaves
\* it None.
C16_AttachOutcome ==
  /\ [](running => on_exit = <<"None">>)
  /\ [][/\ \A key \in {Key("Enter"), Key("a")} :
             (state = "Sessions" /\ sessions # <<>> /\ KeyEvent(key)) =>
               /\ pc' = "exit" /\ ~running'
               /\ on_exit' = <<"AttachSession",
                               sessions[selected_session + 1][1], TRUE>>
        /\ \A key \in {Key("q"), Ctrl("c")} :
             (GlobalQuit(Self, key) /\ KeyEvent(key)) =>
               pc' = "exit" /\ ~running' /\ on_exit' = <<"None">>]_vars

\* the loop has ended with the attach of the second session of the list
C16_Witness ==
  /\ pc = "exit" /\ ~running
  /\ Len(sessions) > 1 /\ selected_session = 1
  /\ on_exit = <<"AttachSession", sessions[2][1], TRUE>>

HasSubstring(row, needle) ==
  \E j \in 1..(Len(row) - Len(needle) + 1) :
    \A k \in 1..Len(needle) : row[j + k - 1] = needle[k]

\* the rows of sess, as rendered, that have needle in it; none for ""
MatchSet(sess, needle) ==
  IF needle = <<>> THEN {}
  ELSE {i - 1 : i \in {n \in 1..Len(sess) :
                         HasSubstring(ItemStrings(sess)[n], needle)}}

\* the frame of the search has been drawn and a key is awaited
Searching == state = "SessionsSearch" /\ pc = "event"

\* C18: after a frame of the search is drawn, matching_rows is the
\* ascending sequence of the indices of the rows that have the search
\* text in them as a literal substring, and is empty for the empty text.
C18_MatchSet ==
  Searching =>
    /\ {matching_rows[k] : k \in 1..Len(matching_rows)}
         = MatchSet(sessions, search_session_ta[1])
    /\ \A k \in 1..(Len(matching_rows) - 1) :
         matching_rows[k] < matching_rows[k + 1]
    /\ search_session_ta[1] = <<>> => matching_rows = <<>>

\* a text of two characters is found in the second of three rows only
C18_Witness ==
  /\ Searching
  /\ Len(search_session_ta[1]) = 2
  /\ Len(sessions) = 3
  /\ matching_rows = <<1>>

\* C19: in every state of the search, a search_session_selected that is
\* Some(row) has a row that matches the search text as it is now over the
\* session list as it is now; also right after '/' opened the search and
\* right after a key changed the text.
C19_PointerInMatchSet ==
  (state = "SessionsSearch" /\ search_session_ta # None
     /\ search_session_selected # None) =>
    search_session_selected[1] \in MatchSet(sessions, search_session_ta[1])

\* the least row of a set of rows that is not empty
FirstOf(M) == CHOOSE m \in M : \A n \in M : m <= n

\* C20: a frame of the search keeps search_session_selected when its row
\* still matches, makes it None when no row matches, and else makes it the
\* first matching row; drawing again over the same text and list changes
\* neither matching_rows nor search_session_selected.
C20_PointerContinuity ==
  /\ [][(state = "SessionsSearch" /\ pc = "draw" /\ pc' = "event") =>
          LET M == MatchSet(sessions, search_session_ta[1])
              p == search_session_selected
          IN search_session_selected' =
               IF p # None /\ p[1] \in M THEN p
               ELSE IF M = {} THEN None
               ELSE Some(FirstOf(M))]_vars
  /\ [](Searching =>
          \A b \in render(Self) :
            /\ b.matching_rows = matching_rows
            /\ b.search_session_selected = search_session_selected)

\* a frame has kept the pointer on a row that is not the first match,
\* after the text grew to two characters
C20_Witness ==
  /\ Searching
  /\ Len(search_session_ta[1]) = 2
  /\ Len(matching_rows) > 1
  /\ search_session_selected # None
  /\ search_session_selected[1] # matching_rows[1]

\* what C21 says of a step of the pointer by d (1 forward, -1 backward)
PointerStep(d) ==
  /\ pc' = "draw" /\ state' = "SessionsSearch"
  /\ matching_rows' = matching_rows
  /\ IF search_session_selected = None
     THEN search_session_selected' = None
     ELSE \E k \in 0..(Len(matching_rows) - 1) :
            /\ matching_rows[k + 1] = search_session_selected[1]
            /\ search_session_selected' =
                 Some(matching_rows[Max(Min(k + d, Len(matching_rows) - 1), 0) + 1])

\* C21: in the search, with the pointer on the k-th of m matching rows,
\* Ctrl-n puts it on the row at min(k+1, m-1) and Ctrl-p on the row at
\* max(k-1, 0) of matching_rows, without wrapping; with no pointer both
\* leave it None.
C21_MatchStepping ==
  [][(state = "SessionsSearch" /\ search_session_ta # None) =>
       /\ KeyEvent(Ctrl("n")) => PointerStep(1)
       /\ KeyEvent(Ctrl("p")) => PointerStep(-1)]_vars

\* the pointer stands on the last of three matches, away from the
\* selected session, and the next frame is due
C21_Witness ==
  /\ state = "SessionsSearch" /\ pc = "draw"
  /\ Len(matching_rows) = 3
  /\ search_session_selected = Some(matching_rows[3])
  /\ selected_session = 0

\* C22: Enter in the search goes to Sessions; with the pointer on row r
\* the selected index becomes r, with no pointer it stays; and no step
\* that stays in the search changes the selected index, so without a
\* pointer the index is the one the search was entered with.
C22_FilterCommit ==
  [][state = "SessionsSearch" =>
       /\ KeyEvent(Key("Enter")) =>
            /\ pc' = "draw" /\ state' = "Sessions"
            /\ sessions' = sessions
            /\ selected_session' =
                 IF search_session_selected # None
                 THEN search_session_selected[1]
                 ELSE selected_session
       /\ state' = "SessionsSearch" =>
            selected_session' = selected_session]_vars

\* the search has been left and the third session, which was pointed at,
\* is the selected one
C22_Witness ==
  /\ state = "Sessions" /\ pc = "draw"
  /\ search_session_ta = None /\ calls = <<>>
  /\ Len(matching_rows) > 1
  /\ search_session_selected = Some(2)
  /\ selected_session = 2

\* C23: outside the search matching_rows is empty and
\* search_session_selected is None, and '/' enters the search with
\* matching_rows empty and search_session_selected None.
C23_NoStaleMatchState ==
  /\ [](state # "SessionsSearch" =>
          matching_rows = <<>> /\ search_session_selected = None)
  /\ [][(state = "Sessions" /\ KeyEvent(Key("/"))) =>
          /\ state' = "SessionsSearch"
          /\ matching_rows' = <<>>
          /\ search_session_selected' = None]_vars

\* what C24 says of a navigation key in Sessions that is to put the
\* selected index on to (an index of the list that is not empty)
NavStep(key, to) ==
  (state = "Sessions" /\ KeyEvent(key)) =>
    /\ pc' = "draw" /\ panic' = ""
    /\ sessions' = sessions
    /\ selected_session' = (IF sessions = <<>> THEN selected_session ELSE to)

\* C24: in Sessions, up goes from index i to max(i-1, 0), down to
\* min(i+1, length-1), 'g' to 0 and 'G' to length-1; on an empty list
\* these keys do not panic and leave the selected index as it is.
C24_NavigationClamps ==
  [][/\ \A key \in {Key("k"), Key("Up"), Ctrl("p")} :
          NavStep(key, Max(selected_session - 1, 0))
     /\ \A key \in {Key("j"), Key("Down"), Ctrl("n")} :
          NavStep(key, Min(selected_session + 1, Len(sessions) - 1))
     /\ NavStep(Key("g"), 0)
     /\ NavStep(Key("G"), Len(sessions) - 1)]_vars

\* the key commits the dialog or prompt of state st
IsCommit(st, key) ==
  \/ st = "Deleting" /\ key = Key("y")
  \/ st \in TextEntryStates /\ key = Key("Enter")

\* C25: in Deleting, Renaming, NewSession, WarnNested and SessionsSearch
\* every key but the commit ('y' of the delete, Enter of a prompt or of
\* the search) leaves the session list and the selected index as they
\* are and runs no tmux command that changes the server.
C25_OnlyCommitChanges ==
  [][state # "Sessions" =>
       \/ /\ sessions' = sessions
          /\ selected_session' = selected_session
          /\ tmux' = tmux
          /\ \A i \in 1..Len(calls') : ~IsMutation(calls'[i])
       \/ \A key \in Keys \cup TextKeys \cup SearchKeys :
            KeyEvent(key) => IsCommit(state, key)]_vars

\* in the search the pointer has been moved to the third row while the
\* first session is still the selected one
C25_Witness ==
  /\ state = "SessionsSearch" /\ pc = "draw"
  /\ Len(sessions) = 3 /\ selected_session = 0
  /\ search_session_selected = Some(2)
  /\ calls = <<>>

\* matching_rows and the pointer are those of the search text and the
\* session list as they are now
MatchStateFresh ==
  /\ {matching_rows[k] : k \in 1..Len(matching_rows)}
       = MatchSet(sessions, search_session_ta[1])
  /\ search_session_selected = None <=> matching_rows = <<>>
  /\ search_session_selected # None =>
       search_session_selected[1] \in MatchSet(sessions, search_session_ta[1])

\* C26: every key handled in the search finds matching_rows and the
\* pointer computed for the search text and the session list as they are
\* then, and after a key that changed the text the next step of the loop
\* is the frame, not another event.
C26_RenderBeforeEvent ==
  [][(state = "SessionsSearch" /\ search_session_ta # None) =>
       /\ MatchStateFresh \/ \A key \in SearchKeys : ~KeyEvent(key)
       /\ (state' = "SessionsSearch" /\ search_session_ta' # search_session_ta) =>
            pc' = "draw"]_vars

\* the frame after the text grew from " " to " 2" has cut the matches
\* down from both rows to the first
C26_Witness ==
  /\ Searching
  /\ search_session_ta = Some(<<" ", "2">>)
  /\ Len(sessions) = 2
  /\ matching_rows = <<0>>
  /\ search_session_selected = Some(0)

\* C27: in every state of the search the search text area is there, and
\* in every state of the delete confirmation selected_session is an index
\* of sessions, so that neither the expect nor the indexing of render can
\* panic.
C27_RenderAssertions ==
  /\ state = "SessionsSearch" => search_session_ta # None
  /\ state = "Deleting" => selected_session < Len(sessions)

=============================================================================
